---- MODULE Spec2Model ----
(***************************************************************************)
(* Leader election on top of a transactional key-value store               *)
(* (src/src/election.ts, class Election).                                   *)
(*                                                                         *)
(* Several Election instances share one store and one key prefix.  Every   *)
(* asynchronous operation of the class is split at its suspension points:  *)
(* the request is issued by the caller, the store evaluates it atomically, *)
(* and the promise callback runs later on the instance.  Strings are       *)
(* sequences ("" is << >>).                                                 *)
(*                                                                         *)
(* An instance has at most one campaign outstanding, and at most one       *)
(* proclaim or resign; the calls of different instances, the campaign of   *)
(* an instance and its proclaim or resign, and the leader() calls overlap  *)
(* freely, and leases expire at any time.  The store (transactions, range  *)
(* queries, watches, leases) is not part of election.ts and follows its    *)
(* documented interface.                                                   *)
(*                                                                         *)
(* Spec is the class with lease expiry (campaign, proclaim, resign and     *)
(* leader), started with the prefix empty, or holding the keys of other    *)
(* candidates, or where one instance leads and another waits behind it;    *)
(* SpecFresh is its runs from the empty prefix;                            *)
(* SpecExt adds other clients that create removed campaign keys anew;      *)
(* SpecReentrant has campaigns that find their key already present.        *)
(***************************************************************************)
EXTENDS Integers, Sequences, FiniteSets, TLC

\* ------------------------------------------------------------------------
\* Bounds of the model
\* ------------------------------------------------------------------------
NumInst == 2          \* Election instances sharing the prefix
MaxLease == 3         \* leases the store grants (one per campaign)
MaxWrites == 3        \* writes the store commits in a run
MaxLeaderCalls == 2   \* leader() calls in flight together

Inst == 1 .. NumInst
LeaderCalls == 1 .. MaxLeaderCalls

\* the payloads: each candidate campaigns with a value of its own and
\* proclaims another one (the store and the protocol never look into them)
CandidateValue == <<"x", "y", "w", "v", "u", "t">>
CampaignValues(i) == {CandidateValue[i]}
ProclaimValues == {"z"}

\* ------------------------------------------------------------------------
\* Key naming (ElectionKeyCodec)
\* ------------------------------------------------------------------------
keyPrefix == "svc"

HexDigits == <<"0", "1", "2", "3", "4", "5", "6", "7",
               "8", "9", "a", "b", "c", "d", "e", "f">>

RECURSIVE Hex(_)
\* BigNumber(leaseId).toString(16): lowercase, unpadded
Hex(n) == IF n < 16 THEN <<HexDigits[n + 1]>>
          ELSE Hex(n \div 16) \o <<HexDigits[(n % 16) + 1]>>

getPrefix == <<"election", "/", keyPrefix, "/">>

getKey(leaseId) == getPrefix \o Hex(leaseId)

EmptyString == << >>
Undefined == <<"undefined">>     \* a field the constructor never assigns

\* ------------------------------------------------------------------------
\* State
\* ------------------------------------------------------------------------
VARIABLES
  store,          \* the key-value records of the store
  rev,            \* the store's revision counter
  nextLease,      \* number of leases granted so far
  deleted,        \* delete events of the store: [key, rev, create, owner, by]
  leaderKey, leaderRevision, leaderLeaseId,   \* fields of each Election
  cpc, cval, clease, cbound, cresp,           \* the campaign promise chain
  cwatch,         \* the watch a campaign waits on: its key and start revision
  watchers,       \* watchers each instance has created and not cancelled
  opc, oreq, oresp,                           \* a proclaim or resign call
  lpc, lresp,                                 \* the leader() calls
  elected,        \* the instance emitted 'elected' for the campaign on record
                  \* and has not resigned since
  emitted,        \* the instance emitted 'elected' and has not resigned since
  firstElected,   \* the instance of the first 'elected' emission (0: none yet)
  out,            \* what the last step gave its caller: events, results, errors
  cap             \* the extent of the run: the last revision the store
                  \* commits, the last lease it grants, and the leader()
                  \* calls in flight together

storeVars == <<store, rev, nextLease, deleted>>
fieldVars == <<leaderKey, leaderRevision, leaderLeaseId>>
campVars == <<cpc, cval, clease, cbound, cresp, cwatch, watchers>>
opVars == <<opc, oreq, oresp>>
leaderVars == <<lpc, lresp>>
eventVars == <<elected, emitted, firstElected>>

vars ==
  <<storeVars, fieldVars, campVars, opVars, leaderVars, eventVars, out, cap>>

\* outputs of a step
Emits(i, event) == <<[inst |-> i, op |-> "emit", result |-> event, value |-> ""]>>
Returns(i, op, result, value) ==
  <<[inst |-> i, op |-> op, result |-> result, value |-> value]>>
Quiet == << >>

NoResp == [succeeded |-> FALSE, revision |-> 0, kvs |-> << >>]
NoReq == [key |-> EmptyString, revision |-> 0, lease |-> 0, value |-> ""]
NoWatch == [key |-> EmptyString, start |-> 0]

\* ------------------------------------------------------------------------
\* The store (KeyNamespace): range queries, transactions, leases, watches
\* ------------------------------------------------------------------------
HasKey(key) == \E r \in store : r.key = key

Record(key) == CHOOSE r \in store : r.key = key

\* the 'Create' target of a comparison: 0 for an absent key
CreateRevision(key) == IF HasKey(key) THEN Record(key).create ELSE 0

HasPrefix(key, prefix) ==
  /\ Len(key) >= Len(prefix)
  /\ SubSeq(key, 1, Len(prefix)) = prefix

RECURSIVE SortCreate(_, _)
SortCreate(S, dir) ==
  IF S = {} THEN << >>
  ELSE LET m == CHOOSE x \in S : \A y \in S :
                  IF dir = "Ascend" THEN x.create <= y.create
                                    ELSE x.create >= y.create
       IN <<m>> \o SortCreate(S \ {m}, dir)

\* getAll().prefix(p).maxCreateRevision(max).sort("Create", dir); max = 0: no filter
RangeQuery(prefix, max, dir) ==
  SortCreate({r \in store : /\ HasPrefix(r.key, prefix)
                            /\ (max = 0 \/ r.create <= max)}, dir)

\* put(key).value(value).lease(lease) at revision newRev
StorePut(key, value, lease, newRev, who) ==
  IF HasKey(key)
  THEN (store \ {Record(key)}) \cup
         {[Record(key) EXCEPT !.value = value, !.lease = lease]}
  ELSE store \cup {[key |-> key, value |-> value, create |-> newRev,
                    lease |-> lease, owner |-> who]}

StoreDelete(key) == {r \in store : r.key # key}

\* the delete event of a key: its revision, and the record it removed
DeleteEvent(key, newRev, cause) ==
  [key |-> key, rev |-> newRev, create |-> CreateRevision(key),
   owner |-> Record(key).owner, by |-> cause]

\* ------------------------------------------------------------------------
\* Election: the decisions the code takes
\* ------------------------------------------------------------------------
\* fault: a bound one too low, which lets the preceding key through
WaitBoundTooLow(leaderRev) == leaderRev - 2

\* campaign: this.waitDeletes(this.leaderRevision.minus(1))
WaitBound(leaderRev) == leaderRev - 1

\* fault: the wait gives up on the last older key
NoOlderKeyButOne(kvs) == Len(kvs) <= 1

\* waitDeletes: res.kvs.length == 0
NoOlderKey(kvs) == Len(kvs) = 0

\* waitDeletes: res.kvs[0].key
LastKey(kvs) == kvs[1].key

\* fault: the watch starts at the store's revision when it is created
WatchStartNow(res) == rev + 1

\* waitDeletes: this.waitDelete(lastKey, res.header.revision)
WatchStart(res) == res.revision

\* fault: the completed wait does not look at leaderKey
StillCampaigningAlways(key) == TRUE

\* campaign: this.leaderKey != ""
StillCampaigning(key) == key # EmptyString

\* fault: the check of the lease is missing
NoLeaseNever(leaseId) == FALSE

\* proclaim, resign: ! this.leaderLeaseId
NoLease(leaseId) == leaseId = 0

\* fault: the transaction is not guarded
OwnKeyGuardAlways(req) == TRUE

\* fault: the guard asks for some key of that name, of any createRevision
OwnKeyGuardExists(req) == CreateRevision(req.key) # 0

\* proclaim, resign: if(this.leaderKey, 'Create', '==', this.leaderRevision)
OwnKeyGuard(req) == CreateRevision(req.key) = req.revision

\* campaign: if(key, 'Create', '==', 0)
AbsentGuard(key) == CreateRevision(key) = 0

\* fault: the other direction
LeaderSortAscend == "Ascend"

\* leader: sort("Create", "Descend")
LeaderSort == "Descend"

\* leader: res.kvs[0].value
LeaderPick(kvs) == kvs[1].value

\* no call is in flight
NoCalls ==
  /\ cpc = [i \in Inst |-> "idle"]
  /\ cresp = [i \in Inst |-> NoResp]
  /\ cwatch = [i \in Inst |-> NoWatch]
  /\ watchers = [i \in Inst |-> 0]
  /\ opc = [i \in Inst |-> "idle"]
  /\ oreq = [i \in Inst |-> NoReq]
  /\ oresp = [i \in Inst |-> FALSE]
  /\ lpc = [k \in LeaderCalls |-> "idle"]
  /\ lresp = [k \in LeaderCalls |-> NoResp]

\* the instances after construction
Constructed ==
  /\ leaderKey = [i \in Inst |-> Undefined]
  /\ leaderRevision = [i \in Inst |-> 0]
  /\ leaderLeaseId = [i \in Inst |-> 0]
  /\ cval = [i \in Inst |-> ""]
  /\ clease = [i \in Inst |-> 0]
  /\ cbound = [i \in Inst |-> 0]
  /\ elected = [i \in Inst |-> FALSE]
  /\ emitted = [i \in Inst |-> FALSE]
  /\ firstElected = 0
  /\ out = Quiet
  /\ NoCalls

\* a run in which the store commits the given number of writes and grants
\* the given number of leases, with the given number of leader() calls in
\* flight together
Budget(writes, leases, calls) ==
  [rev |-> rev + writes, lease |-> nextLease + leases, calls |-> calls]

\* new instances on an empty store.  The runs are of three extents: all
\* leases and one leader() call at a time; one write and one lease less,
\* with overlapping leader() calls; one campaign and no leader() call,
\* with one write more
InitFresh ==
  /\ store = {}
  /\ rev = 1
  /\ nextLease = 0
  /\ deleted = {}
  /\ Constructed
  /\ \/ cap = Budget(MaxWrites, MaxLease, 1)
     \/ cap = Budget(MaxWrites - 1, MaxLease - 1, MaxLeaderCalls)
     \/ cap = Budget(MaxWrites + 1, MaxLease - 2, 0)

\* the campaign keys of candidates in other processes
ForeignKeys ==
  {[key |-> getKey(l), value |-> "p", create |-> l + 1, lease |-> l,
    owner |-> 0] : l \in 1 .. MaxLease - 1}

\* new instances on a store where other candidates campaigned before
InitPopulated ==
  /\ store = ForeignKeys
  /\ rev = MaxLease
  /\ nextLease = MaxLease - 1
  /\ deleted = {}
  /\ Constructed
  /\ cap = Budget(MaxWrites, MaxLease - 2, 1)

\* instance 1 has campaigned on an empty store and emitted 'elected';
\* instance 2 has campaigned after it and waits on its watch of the key of
\* instance 1
Leading ==
  /\ store = {[key |-> getKey(i), value |-> CandidateValue[i],
               create |-> i + 1, lease |-> i, owner |-> i] : i \in 1 .. 2}
  /\ rev = 3
  /\ nextLease = 2
  /\ deleted = {}
  /\ leaderKey = [i \in Inst |-> IF i <= 2 THEN getKey(i) ELSE Undefined]
  /\ leaderRevision = [i \in Inst |-> IF i <= 2 THEN i + 1 ELSE 0]
  /\ leaderLeaseId = [i \in Inst |-> IF i <= 2 THEN i ELSE 0]
  /\ cval = [i \in Inst |-> IF i <= 2 THEN CandidateValue[i] ELSE ""]
  /\ clease = [i \in Inst |-> IF i <= 2 THEN i ELSE 0]
  /\ cbound = [i \in Inst |-> IF i <= 2 THEN i ELSE 0]
  /\ elected = [i \in Inst |-> i = 1]
  /\ emitted = [i \in Inst |-> i = 1]
  /\ firstElected = 1
  /\ out = Quiet
  /\ cpc = [i \in Inst |-> IF i = 2 THEN "watching" ELSE "idle"]
  /\ cresp = [i \in Inst |-> NoResp]
  /\ cwatch = [i \in Inst |-> IF i = 2 THEN [key |-> getKey(1), start |-> rev]
                                       ELSE NoWatch]
  /\ watchers = [i \in Inst |-> IF i = 2 THEN 1 ELSE 0]
  /\ opc = [i \in Inst |-> "idle"]
  /\ oreq = [i \in Inst |-> NoReq]
  /\ oresp = [i \in Inst |-> FALSE]
  /\ lpc = [k \in LeaderCalls |-> "idle"]
  /\ lresp = [k \in LeaderCalls |-> NoResp]

\* a run that goes on from there (a state the runs from the empty store
\* reach)
InitLeading ==
  /\ Leading
  /\ cap = Budget(MaxWrites - 1, MaxLease - 2, 1)

Init == InitFresh \/ InitPopulated \/ InitLeading

\* ------------------------------------------------------------------------
\* campaign(value)
\* ------------------------------------------------------------------------
\* campaign(): asks the store for a lease and returns
Campaign(i, v) ==
  /\ cpc[i] = "idle"
  /\ nextLease + Cardinality({j \in Inst : cpc[j] = "grant"}) < cap.lease
  /\ cval' = [cval EXCEPT ![i] = v]
  /\ cpc' = [cpc EXCEPT ![i] = "grant"]
  /\ out' = Quiet
  /\ UNCHANGED <<storeVars, fieldVars, clease, cbound, cresp, cwatch,
                 watchers, opVars, leaderVars, eventVars, cap>>

\* the store grants the lease
LeaseGrant(i) ==
  /\ cpc[i] = "grant"
  /\ nextLease' = nextLease + 1
  /\ clease' = [clease EXCEPT ![i] = nextLease + 1]
  /\ cpc' = [cpc EXCEPT ![i] = "grantResp"]
  /\ out' = Quiet
  /\ UNCHANGED <<store, rev, deleted, fieldVars, cval, cbound, cresp, cwatch,
                 watchers, opVars, leaderVars, eventVars, cap>>

\* the callback of lease.grant() names the key and sends the transaction
CampaignGranted(i) ==
  /\ cpc[i] = "grantResp"
  /\ cpc' = [cpc EXCEPT ![i] = "txn"]
  /\ out' = Quiet
  /\ UNCHANGED <<storeVars, fieldVars, cval, clease, cbound, cresp, cwatch,
                 watchers, opVars, leaderVars, eventVars, cap>>

\* the store commits if(key,'Create','==',0).then(put).else(get)
CampaignCommit(i) ==
  LET key == getKey(clease[i]) IN
  /\ cpc[i] = "txn"
  /\ IF AbsentGuard(key)
     THEN /\ rev < cap.rev
          /\ store' = StorePut(key, cval[i], clease[i], rev + 1, i)
          /\ rev' = rev + 1
          /\ cresp' = [cresp EXCEPT ![i] =
                         [succeeded |-> TRUE, revision |-> rev + 1, kvs |-> << >>]]
     ELSE /\ UNCHANGED <<store, rev>>
          /\ cresp' = [cresp EXCEPT ![i] =
                         [succeeded |-> FALSE, revision |-> rev,
                          kvs |-> <<Record(key)>>]]
  /\ cpc' = [cpc EXCEPT ![i] = "txnResp"]
  /\ out' = Quiet
  /\ UNCHANGED <<nextLease, deleted, fieldVars, cval, clease, cbound, cwatch,
                 watchers, opVars, leaderVars, eventVars, cap>>

\* the transaction's callback records the triple and calls waitDeletes
CampaignRecorded(i) ==
  /\ cpc[i] = "txnResp"
  /\ leaderKey' = [leaderKey EXCEPT ![i] = getKey(clease[i])]
  /\ leaderRevision' = [leaderRevision EXCEPT ![i] = cresp[i].revision]
  /\ leaderLeaseId' = [leaderLeaseId EXCEPT ![i] = clease[i]]
  /\ cbound' = [cbound EXCEPT ![i] = WaitBound(cresp[i].revision)]
  /\ cresp' = [cresp EXCEPT ![i] = NoResp]
  /\ cpc' = [cpc EXCEPT ![i] = "query"]
  /\ elected' = [elected EXCEPT ![i] = FALSE]
  /\ out' = Quiet
  /\ UNCHANGED <<storeVars, cval, clease, cwatch, watchers,
                 opVars, leaderVars, emitted, firstElected, cap>>

\* the store answers waitDeletes' range query
WaitQueryAnswer(i) ==
  /\ cpc[i] = "query"
  /\ cresp' = [cresp EXCEPT ![i] =
                 [succeeded |-> TRUE, revision |-> rev,
                  kvs |-> RangeQuery(getPrefix, cbound[i], "Ascend")]]
  /\ cpc' = [cpc EXCEPT ![i] = "queryResp"]
  /\ out' = Quiet
  /\ UNCHANGED <<storeVars, fieldVars, cval, clease, cbound, cwatch, watchers,
                 opVars, leaderVars, eventVars, cap>>

\* waitDeletes' callback: return the header, or waitDelete: ask for a watch
\* of the oldest surviving key from the answer's revision
WaitQueryThen(i) ==
  /\ cpc[i] = "queryResp"
  /\ IF NoOlderKey(cresp[i].kvs)
     THEN /\ cpc' = [cpc EXCEPT ![i] = "waitDone"]
          /\ UNCHANGED cwatch
     ELSE /\ cpc' = [cpc EXCEPT ![i] = "watchReq"]
          /\ cwatch' = [cwatch EXCEPT ![i] =
                          [key |-> LastKey(cresp[i].kvs),
                           start |-> WatchStart(cresp[i])]]
  /\ cresp' = [cresp EXCEPT ![i] = NoResp]
  /\ out' = Quiet
  /\ UNCHANGED <<storeVars, fieldVars, cval, clease, cbound, watchers, opVars,
                 leaderVars, eventVars, cap>>

\* campaign's last callback, after waitDeletes resolved: emit 'elected'
\* unless leaderKey was cleared
CampaignThen(i) ==
  /\ cpc[i] = "waitDone"
  /\ IF StillCampaigning(leaderKey[i])
     THEN /\ elected' = [elected EXCEPT ![i] = TRUE]
          /\ emitted' = [emitted EXCEPT ![i] = TRUE]
          /\ firstElected' = IF firstElected = 0 THEN i ELSE firstElected
          /\ out' = Emits(i, "elected")
     ELSE /\ UNCHANGED <<elected, emitted, firstElected>>
          /\ out' = Quiet
  /\ cpc' = [cpc EXCEPT ![i] = "idle"]
  /\ UNCHANGED <<storeVars, fieldVars, cval, clease, cbound, cresp, cwatch,
                 watchers, opVars, leaderVars, cap>>

\* the store creates the watch
WatchCreate(i) ==
  /\ cpc[i] = "watchReq"
  /\ watchers' = [watchers EXCEPT ![i] = @ + 1]
  /\ cpc' = [cpc EXCEPT ![i] = "watchResp"]
  /\ out' = Quiet
  /\ UNCHANGED <<storeVars, fieldVars, cval, clease, cbound, cresp, cwatch,
                 opVars, leaderVars, eventVars, cap>>

\* the callback of create() attaches the 'delete' handler
WatchCreated(i) ==
  /\ cpc[i] = "watchResp"
  /\ cpc' = [cpc EXCEPT ![i] = "watching"]
  /\ out' = Quiet
  /\ UNCHANGED <<storeVars, fieldVars, cval, clease, cbound, cresp, cwatch,
                 watchers, opVars, leaderVars, eventVars, cap>>

\* a watch started at revision s delivers the delete events of its key from s on
WatchDelivers(w) == \E e \in deleted : e.key = w.key /\ e.rev >= w.start

\* the watcher's 'delete' event reaches the handler, which resolves waitDelete
WatchDelete(i) ==
  /\ cpc[i] = "watching"
  /\ WatchDelivers(cwatch[i])
  /\ cpc' = [cpc EXCEPT ![i] = "watchFired"]
  /\ cwatch' = [cwatch EXCEPT ![i] = NoWatch]
  /\ out' = Quiet
  /\ UNCHANGED <<storeVars, fieldVars, cval, clease, cbound, cresp, watchers,
                 opVars, leaderVars, eventVars, cap>>

\* the callback after waitDelete: waitDeletes again, which sends its query
WaitAgain(i) ==
  /\ cpc[i] = "watchFired"
  /\ cpc' = [cpc EXCEPT ![i] = "query"]
  /\ out' = Quiet
  /\ UNCHANGED <<storeVars, fieldVars, cval, clease, cbound, cresp, cwatch,
                 watchers, opVars, leaderVars, eventVars, cap>>

\* ------------------------------------------------------------------------
\* proclaim(value)
\* ------------------------------------------------------------------------
\* fault: the put of proclaim leaves out the lease
OwnKeyRequestNoLease(i, v) ==
  [key |-> leaderKey[i], revision |-> leaderRevision[i],
   lease |-> 0, value |-> v]

\* the transaction proclaim and resign build from the instance's fields
OwnKeyRequest(i, v) ==
  [key |-> leaderKey[i], revision |-> leaderRevision[i],
   lease |-> leaderLeaseId[i], value |-> v]

\* proclaim(): throws NotLeader without a lease, else sends the transaction;
\* the caller has no other proclaim or resign of the instance in flight
Proclaim(i, v) ==
  /\ opc[i] = "idle"
  /\ IF NoLease(leaderLeaseId[i])
     THEN /\ out' = Returns(i, "proclaim", "throws NotLeader", "")
          /\ UNCHANGED <<opc, oreq>>
     ELSE /\ opc' = [opc EXCEPT ![i] = "proclaimTxn"]
          /\ oreq' = [oreq EXCEPT ![i] = OwnKeyRequest(i, v)]
          /\ out' = Quiet
  /\ UNCHANGED <<storeVars, fieldVars, campVars, oresp, leaderVars, eventVars,
                 cap>>

\* the store commits if(leaderKey,'Create','==',leaderRevision).then(put)
ProclaimCommit(i) ==
  /\ opc[i] = "proclaimTxn"
  /\ IF OwnKeyGuard(oreq[i])
     THEN /\ rev < cap.rev
          /\ store' = StorePut(oreq[i].key, oreq[i].value, oreq[i].lease,
                               rev + 1, i)
          /\ rev' = rev + 1
          /\ oresp' = [oresp EXCEPT ![i] = TRUE]
     ELSE /\ UNCHANGED <<store, rev>>
          /\ oresp' = [oresp EXCEPT ![i] = FALSE]
  /\ opc' = [opc EXCEPT ![i] = "proclaimResp"]
  /\ out' = Quiet
  /\ UNCHANGED <<nextLease, deleted, fieldVars, campVars, oreq,
                 leaderVars, eventVars, cap>>

\* proclaim's callback: a failed transaction clears leaderKey and throws
ProclaimThen(i) ==
  /\ opc[i] = "proclaimResp"
  /\ IF oresp[i]
     THEN /\ out' = Returns(i, "proclaim", "resolves", "")
          /\ UNCHANGED leaderKey
     ELSE /\ leaderKey' = [leaderKey EXCEPT ![i] = EmptyString]
          /\ out' = Returns(i, "proclaim", "rejects NotLeader", "")
  /\ opc' = [opc EXCEPT ![i] = "idle"]
  /\ oreq' = [oreq EXCEPT ![i] = NoReq]
  /\ oresp' = [oresp EXCEPT ![i] = FALSE]
  /\ UNCHANGED <<storeVars, leaderRevision, leaderLeaseId, campVars,
                 leaderVars, eventVars, cap>>

\* ------------------------------------------------------------------------
\* resign()
\* ------------------------------------------------------------------------
\* resign(): returns at once without a lease, else sends the transaction;
\* the caller has no other proclaim or resign of the instance in flight
Resign(i) ==
  /\ opc[i] = "idle"
  /\ IF NoLease(leaderLeaseId[i])
     THEN /\ out' = Returns(i, "resign", "returns undefined", "")
          /\ UNCHANGED <<opc, oreq>>
     ELSE /\ opc' = [opc EXCEPT ![i] = "resignTxn"]
          /\ oreq' = [oreq EXCEPT ![i] = OwnKeyRequest(i, "")]
          /\ out' = Quiet
  /\ UNCHANGED <<storeVars, fieldVars, campVars, oresp, leaderVars, eventVars,
                 cap>>

\* the store commits if(leaderKey,'Create','==',leaderRevision).then(delete)
ResignCommit(i) ==
  /\ opc[i] = "resignTxn"
  /\ IF OwnKeyGuard(oreq[i])
     THEN /\ rev < cap.rev
          /\ store' = StoreDelete(oreq[i].key)
          /\ rev' = rev + 1
          /\ deleted' = deleted \cup {DeleteEvent(oreq[i].key, rev + 1, "resign")}
          /\ oresp' = [oresp EXCEPT ![i] = TRUE]
     ELSE /\ UNCHANGED <<store, rev, deleted>>
          /\ oresp' = [oresp EXCEPT ![i] = FALSE]
  /\ opc' = [opc EXCEPT ![i] = "resignResp"]
  /\ out' = Quiet
  /\ UNCHANGED <<nextLease, fieldVars, campVars, oreq, leaderVars, eventVars,
                 cap>>

\* fault: resign's callback forgets the lease
ResignThenKeepsLease(i) ==
  /\ opc[i] = "resignResp"
  /\ out' = Emits(i, "resigned") \o
            Returns(i, "resign", IF oresp[i] THEN "resolves, key deleted"
                                  ELSE "resolves, key kept", "")
  /\ leaderKey' = [leaderKey EXCEPT ![i] = EmptyString]
  /\ elected' = [elected EXCEPT ![i] = FALSE]
  /\ emitted' = [emitted EXCEPT ![i] = FALSE]
  /\ opc' = [opc EXCEPT ![i] = "idle"]
  /\ oreq' = [oreq EXCEPT ![i] = NoReq]
  /\ oresp' = [oresp EXCEPT ![i] = FALSE]
  /\ UNCHANGED <<storeVars, leaderRevision, leaderLeaseId, campVars,
                 leaderVars, firstElected, cap>>

\* resign's callback, one turn of the event loop: emit 'resigned', clear
\* leaderKey and leaderLeaseId; the promise of resign() resolves
ResignThen(i) ==
  /\ opc[i] = "resignResp"
  /\ out' = Emits(i, "resigned") \o
            Returns(i, "resign", IF oresp[i] THEN "resolves, key deleted"
                                  ELSE "resolves, key kept", "")
  /\ leaderKey' = [leaderKey EXCEPT ![i] = EmptyString]
  /\ leaderLeaseId' = [leaderLeaseId EXCEPT ![i] = 0]
  /\ elected' = [elected EXCEPT ![i] = FALSE]
  /\ emitted' = [emitted EXCEPT ![i] = FALSE]
  /\ opc' = [opc EXCEPT ![i] = "idle"]
  /\ oreq' = [oreq EXCEPT ![i] = NoReq]
  /\ oresp' = [oresp EXCEPT ![i] = FALSE]
  /\ UNCHANGED <<storeVars, leaderRevision, campVars, leaderVars,
                 firstElected, cap>>

\* ------------------------------------------------------------------------
\* leader()
\* ------------------------------------------------------------------------
\* what leader's callback makes of the answer: NoLeader, or the first row's value
LeaderResult(kvs) ==
  IF Len(kvs) = 0 THEN Returns(0, "leader", "rejects NoLeader", "")
  ELSE Returns(0, "leader", "resolves", LeaderPick(kvs))

\* leader(): sends getAll().prefix(prefix).sort("Create", "Descend"); the
\* call takes the first slot that is free
Leader(k) ==
  /\ lpc[k] = "idle"
  /\ \A m \in 1 .. k - 1 : lpc[m] # "idle"
  /\ k <= cap.calls
  /\ lpc' = [lpc EXCEPT ![k] = "query"]
  /\ out' = Quiet
  /\ UNCHANGED <<storeVars, fieldVars, campVars, opVars, lresp, eventVars,
                 cap>>

\* the store answers leader's range query
LeaderAnswer(k) ==
  /\ lpc[k] = "query"
  /\ lresp' = [lresp EXCEPT ![k] =
                 [succeeded |-> TRUE, revision |-> rev,
                  kvs |-> RangeQuery(getPrefix, 0, LeaderSort)]]
  /\ lpc' = [lpc EXCEPT ![k] = "queryResp"]
  /\ out' = Quiet
  /\ UNCHANGED <<storeVars, fieldVars, campVars, opVars, eventVars, cap>>

\* leader's callback gives the caller the result
LeaderThen(k) ==
  /\ lpc[k] = "queryResp"
  /\ out' = LeaderResult(lresp[k].kvs)
  /\ lpc' = [lpc EXCEPT ![k] = "idle"]
  /\ lresp' = [lresp EXCEPT ![k] = NoResp]
  /\ UNCHANGED <<storeVars, fieldVars, campVars, opVars, eventVars, cap>>

\* ------------------------------------------------------------------------
\* The environment: lease expiry, and other clients of the store
\* ------------------------------------------------------------------------
\* a lease expires (or is revoked): the store removes the key bound to it
LeaseExpire(key) ==
  /\ HasKey(key)
  /\ Record(key).lease # 0
  /\ rev < cap.rev
  /\ store' = StoreDelete(key)
  /\ rev' = rev + 1
  /\ deleted' = deleted \cup {DeleteEvent(key, rev + 1, "expiry")}
  /\ out' = Quiet
  /\ UNCHANGED <<nextLease, fieldVars, campVars, opVars, leaderVars,
                 eventVars, cap>>

\* another client of the store creates anew a campaign key that was removed
ExternalPut(key, v) ==
  /\ ~HasKey(key)
  /\ \E e \in deleted : e.key = key
  /\ rev < cap.rev
  /\ store' = StorePut(key, v, 0, rev + 1, 0)
  /\ rev' = rev + 1
  /\ out' = Quiet
  /\ UNCHANGED <<nextLease, deleted, fieldVars, campVars, opVars,
                 leaderVars, eventVars, cap>>

CampaignKeys == {getKey(l) : l \in 1 .. MaxLease}

\* the steps of campaign()
CampaignSteps ==
  \/ \E i \in Inst : \E v \in CampaignValues(i) : Campaign(i, v)
  \/ \E i \in Inst : LeaseGrant(i)
  \/ \E i \in Inst : CampaignGranted(i)
  \/ \E i \in Inst : CampaignCommit(i)
  \/ \E i \in Inst : CampaignRecorded(i)
  \/ \E i \in Inst : WaitQueryAnswer(i)
  \/ \E i \in Inst : WaitQueryThen(i)
  \/ \E i \in Inst : CampaignThen(i)
  \/ \E i \in Inst : WatchCreate(i)
  \/ \E i \in Inst : WatchCreated(i)
  \/ \E i \in Inst : WatchDelete(i)
  \/ \E i \in Inst : WaitAgain(i)

\* the steps of proclaim()
ProclaimSteps ==
  \/ \E i \in Inst, v \in ProclaimValues : Proclaim(i, v)
  \/ \E i \in Inst : ProclaimCommit(i)
  \/ \E i \in Inst : ProclaimThen(i)

\* the steps of resign()
ResignSteps ==
  \/ \E i \in Inst : Resign(i)
  \/ \E i \in Inst : ResignCommit(i)
  \/ \E i \in Inst : ResignThen(i)

\* the steps of leader()
LeaderSteps ==
  \/ \E k \in LeaderCalls : Leader(k)
  \/ \E k \in LeaderCalls : LeaderAnswer(k)
  \/ \E k \in LeaderCalls : LeaderThen(k)

\* the class with lease expiry: the candidates and the callers of leader()
Next ==
  \/ CampaignSteps
  \/ ProclaimSteps
  \/ ResignSteps
  \/ LeaderSteps
  \/ \E key \in CampaignKeys : LeaseExpire(key)

Spec == Init /\ [][Next]_vars

\* the runs of Spec that start from the empty store
SpecFresh == InitFresh /\ [][Next]_vars

NextExt ==
  \/ Next
  \/ \E key \in CampaignKeys, v \in ProclaimValues : ExternalPut(key, v)

SpecExt == Init /\ [][NextExt]_vars

\* another holder of the lease of i's campaign creates the campaign key
\* before the campaign's transaction commits
LeaseKeyPut(i, v) ==
  LET key == getKey(clease[i]) IN
  /\ cpc[i] = "txn"
  /\ ~HasKey(key)
  /\ ~\E e \in deleted : e.key = key
  /\ rev < cap.rev
  /\ store' = StorePut(key, v, clease[i], rev + 1, 0)
  /\ rev' = rev + 1
  /\ out' = Quiet
  /\ UNCHANGED <<nextLease, deleted, fieldVars, campVars, opVars,
                 leaderVars, eventVars, cap>>

\* campaigns alone, some of which find their key already present
NextReentrant ==
  \/ CampaignSteps
  \/ \E key \in CampaignKeys : LeaseExpire(key)
  \/ \E i \in Inst, v \in ProclaimValues : LeaseKeyPut(i, v)

SpecReentrant == InitFresh /\ [][NextReentrant]_vars
\* ------------------------------------------------------------------------
\* Properties
\* ------------------------------------------------------------------------
\* the records under the election's prefix
PrefixKeys == {r \in store : HasPrefix(r.key, getPrefix)}

\* the last step was leader's callback giving its result
LeaderReturned == Len(out) = 1 /\ out[1].op = "leader"

\* the query of leader() call k has been answered and the store has not
\* changed since
LeaderAnswered(k) == lpc[k] = "queryResp" /\ lresp[k].revision = rev

\* the keys created under the prefix so far, still there or removed
Created ==
  {[create |-> r.create, owner |-> r.owner] : r \in PrefixKeys}
    \cup {[create |-> e.create, owner |-> e.owner] : e \in deleted}

WaitResolves(i) ==
  \/ cpc[i] = "queryResp" /\ cresp[i].kvs = << >>
  \/ cpc[i] = "waitDone"
  \/ cpc[i] = "idle" /\ cbound[i] > 0

\* C2: waitDeletes(bound) resolves only in the callback of a range query
\* whose answer lists no key with createRevision <= bound, and from the state
\* in which it resolves on the prefix holds no such key, in whatever order
\* and by whatever means the older keys were removed.
C2_ResolvesAfterOlderGone ==
  [][\A i \in Inst :
       /\ (cpc'[i] = "waitDone" /\ cpc[i] # "waitDone") =>
            /\ cpc[i] = "queryResp"
            /\ \A k \in 1 .. Len(cresp[i].kvs) :
                 cresp[i].kvs[k].create > cbound[i]
       /\ WaitResolves(i)' =>
            \A r \in PrefixKeys' : r.create > cbound'[i]
    ]_vars

\* C2's case: a wait behind two older keys watched the older one, woke up
\* when it was removed, watched the other one, and has resolved after that
\* one was removed too
C2_Witness ==
  \E i \in Inst :
    /\ out = Emits(i, "elected")
    /\ watchers[i] = 2
    /\ Cardinality({e \in deleted : e.create <= cbound[i]}) = 2

\* C3 (as claimed): once a candidate that waited behind a leader who resigned
\* has emitted 'elected', a leader() call answered while that candidate's key
\* exists gives the value of that key.
C3_LeaderAfterHandover ==
  \A i \in Inst : \A k \in LeaderCalls :
    ( /\ elected[i]
      /\ CreateRevision(leaderKey[i]) = leaderRevision[i]
      /\ \E e \in deleted : /\ e.by = "resign"
                            /\ e.create < leaderRevision[i]
                            /\ leaderRevision[i] < e.rev
      /\ LeaderAnswered(k) )
    => LeaderResult(lresp[k].kvs) =
         Returns(0, "leader", "resolves", Record(leaderKey[i]).value)

\* C4: a proclaim whose transaction finds the instance's key removed writes
\* nothing, and its callback clears leaderKey and rejects with NotLeader.
C4_ProclaimAfterKeyLost ==
  [][\A i \in Inst :
       /\ ( /\ opc[i] = "proclaimTxn"
            /\ opc'[i] = "proclaimResp"
            /\ ~HasKey(oreq[i].key) )
          => (store' = store /\ rev' = rev /\ ~oresp'[i])
       /\ ( /\ opc[i] = "proclaimResp"
            /\ opc'[i] = "idle"
            /\ ~oresp[i] )
          => /\ leaderKey'[i] = EmptyString
             /\ out' = Returns(i, "proclaim", "rejects NotLeader", "")
             /\ store' = store
     ]_vars

\* C4's case: an elected instance whose key expired proclaimed and was rejected
C4_Witness ==
  \E i \in Inst :
    /\ out = Returns(i, "proclaim", "rejects NotLeader", "")
    /\ elected[i]
    /\ leaderKey[i] = EmptyString
    /\ \E e \in deleted : /\ e.by = "expiry"
                          /\ e.key = getKey(leaderLeaseId[i])
                          /\ e.create = leaderRevision[i]

\* the rows of an answer
Rows(kvs) == {kvs[k] : k \in 1 .. Len(kvs)}

\* C5: the answer to the query of a leader() call is the prefix as the store
\* holds it when it answers; the callback rejects with NoLeader exactly when
\* that answer is empty, else it resolves with the value of the answer's key
\* of greatest createRevision; no step of the call changes the store or a
\* field of an instance, whatever other calls are in flight.
C5_LeaderIsNewestKey ==
  [][\A k \in LeaderCalls :
       /\ lpc'[k] # lpc[k] => UNCHANGED <<storeVars, fieldVars>>
       /\ (lpc[k] = "query" /\ lpc'[k] = "queryResp") =>
            /\ Rows(lresp'[k].kvs) = PrefixKeys
            /\ lresp'[k].revision = rev
       /\ (lpc[k] = "queryResp" /\ lpc'[k] = "idle") =>
            /\ LeaderReturned'
            /\ (out'[1].result = "rejects NoLeader") <=> (Rows(lresp[k].kvs) = {})
            /\ Rows(lresp[k].kvs) # {} =>
                 /\ out'[1].result = "resolves"
                 /\ \E r \in Rows(lresp[k].kvs) :
                      /\ \A q \in Rows(lresp[k].kvs) : q.create <= r.create
                      /\ out'[1].value = r.value
     ]_vars

\* C5's case: of two leader() calls in flight together, answered at
\* different revisions, one has resolved with the value of the key that was
\* the newest when the store answered it, while the answer the other one
\* holds has a newer key
C5_Witness ==
  /\ LeaderReturned
  /\ out[1].result = "resolves"
  /\ \E k \in LeaderCalls :
       /\ lpc[k] = "queryResp"
       /\ Len(lresp[k].kvs) = 2
       /\ LeaderResult(lresp[k].kvs) # out

\* C6 (as claimed): a leader() call answered while an elected candidate's
\* key exists gives that candidate's value, also with later candidates
\* waiting behind it.
C6_LeaderIsElected ==
  \A i \in Inst : \A k \in LeaderCalls :
    ( /\ elected[i]
      /\ CreateRevision(leaderKey[i]) = leaderRevision[i]
      /\ LeaderAnswered(k) )
    => LeaderResult(lresp[k].kvs) =
         Returns(0, "leader", "resolves", Record(leaderKey[i]).value)

\* the last step was a proclaim or resign call that ended at its first line
RefusedCall(i) ==
  \/ out = Returns(i, "proclaim", "throws NotLeader", "")
  \/ out = Returns(i, "resign", "returns undefined", "")

\* C7: an instance without a lease sends no transaction; its proclaim throws
\* NotLeader and its resign returns at once, and neither changes the store,
\* a field of the instance or its pending calls, nor emits an event.
C7_NoLeaseNoEffect ==
  [][\A i \in Inst :
       /\ leaderLeaseId[i] = 0 =>
            (opc'[i] \in {"proclaimTxn", "resignTxn"} => opc'[i] = opc[i])
       /\ RefusedCall(i)' =>
            /\ leaderLeaseId[i] = 0
            /\ UNCHANGED <<storeVars, fieldVars, campVars, opVars, leaderVars,
                           eventVars>>
     ]_vars

\* C7's case: an instance that resigned calls proclaim
C7_Witness ==
  \E i \in Inst :
    /\ out = Returns(i, "proclaim", "throws NotLeader", "")
    /\ leaderKey[i] = EmptyString
    /\ leaderLeaseId[i] = 0
    /\ \E e \in deleted : e.by = "resign"

\* C8: resign's transaction removes at most the key the instance itself
\* created, and only while it is that key (createRevision = leaderRevision);
\* otherwise the store is left as it is.
C8_ResignDeletesOwnKeyOnly ==
  [][\A i \in Inst :
       (opc[i] = "resignTxn" /\ opc'[i] = "resignResp") =>
         \/ store' = store /\ rev' = rev /\ deleted' = deleted
         \/ \E r \in store :
              /\ r.key = oreq[i].key
              /\ r.create = oreq[i].revision
              /\ r.owner = i
              /\ store' = store \ {r}
     ]_vars

\* C8's case: a resign found its key created anew by another client, and
\* left it
C8_Witness ==
  \E i \in Inst :
    /\ opc[i] = "resignResp"
    /\ ~oresp[i]
    /\ HasKey(oreq[i].key)
    /\ Record(oreq[i].key).owner # i

\* the last step was resign's callback on instance i
ResignSettled(i) ==
  /\ Len(out) > 0
  /\ out[Len(out)].inst = i
  /\ out[Len(out)].op = "resign"
  /\ out[Len(out)].result # "returns undefined"

\* the step emits 'resigned' on instance i
EmitsResigned(i) ==
  \E k \in 1 .. Len(out') : out'[k] = Emits(i, "resigned")[1]

\* C9: a resign called with the lease set, once its transaction has
\* committed, whatever the outcome of the guard, emits 'resigned' once, in
\* its callback and in no other step, and that callback leaves
\* leaderKey = "" and leaderLeaseId = null and resolves the call.
C9_ResignClears ==
  [][\A i \in Inst :
       /\ (opc[i] # "resignTxn" /\ opc'[i] = "resignTxn") =>
            oreq'[i].lease # 0
       /\ (opc[i] = "resignTxn" /\ opc'[i] # "resignTxn") =>
            opc'[i] = "resignResp"
       /\ (opc[i] = "resignResp" /\ opc'[i] # "resignResp") =>
            /\ opc'[i] = "idle"
            /\ ResignSettled(i)'
            /\ Cardinality({k \in 1 .. Len(out') :
                              out'[k] = Emits(i, "resigned")[1]}) = 1
            /\ \A k \in 1 .. Len(out') : out'[k].inst = i
            /\ leaderKey'[i] = EmptyString
            /\ leaderLeaseId'[i] = 0
       /\ (EmitsResigned(i) \/ ResignSettled(i)') =>
            opc[i] = "resignResp" /\ opc'[i] = "idle"
    ]_vars

\* C9's case: a resign whose guard failed has settled
C9_Witness ==
  \E i \in Inst :
    /\ ResignSettled(i)
    /\ out[Len(out)].result = "resolves, key kept"
    /\ leaderLeaseId[i] = 0

\* C10 (as claimed): while an instance is held up by an older key, not yet
\* elected, no proclaim replaces the value it campaigned with.
C10_ProclaimOnlyWhenLeading ==
  \A i \in Inst :
    ( /\ cpc[i] = "watching"
      /\ HasKey(cwatch[i].key)
      /\ ~elected[i]
      /\ HasKey(leaderKey[i]) )
    => Record(leaderKey[i]).value = cval[i]

\* ---- the local triple ----

\* the positions of a campaign inside waitDeletes, and after it
WaitPositions ==
  {"query", "queryResp", "watchReq", "watchResp", "watching", "watchFired",
   "waitDone"}

\* i has asked for a watch and waits for its delete event
Watching(i) == cpc[i] \in {"watchReq", "watchResp", "watching"}

\* a campaign of i has its key on record and has not run its last callback
Waiting(i) == cpc[i] \in WaitPositions

KeyPresent(i) == leaderKey[i] # EmptyString /\ leaderKey[i] # Undefined

\* C11 (as claimed): the fields leaderKey, leaderRevision and leaderLeaseId
\* of an instance are all present or all absent, and they are present
\* only while the instance campaigns or has been elected and not resigned.
C11_TripleAllOrNone ==
  \A i \in Inst :
    /\ KeyPresent(i) <=> leaderLeaseId[i] # 0
    /\ KeyPresent(i) <=> leaderRevision[i] # 0
    /\ KeyPresent(i) => (elected[i] \/ cpc[i] # "idle")

\* ---- proclaim's effect ----

\* the transaction of i's proclaim commits with its guard satisfied
ProclaimSucceeds(i) ==
  opc[i] = "proclaimTxn" /\ opc'[i] = "proclaimResp" /\ oresp'[i]

\* C12: a successful proclaim replaces the value at the leader's key and
\* nothing else: the key keeps its name, createRevision and lease, no other
\* key changes, no delete event reaches a watcher, the local fields of every
\* instance stay, and no campaign is elected or moved on.
C12_ProclaimChangesValueOnly ==
  [][\A i \in Inst :
       /\ ProclaimSucceeds(i) =>
            /\ \E r \in store :
                 /\ r.key = oreq[i].key
                 /\ store' = (store \ {r})
                               \cup {[r EXCEPT !.value = oreq[i].value]}
            /\ deleted' = deleted
            /\ UNCHANGED <<fieldVars, campVars, eventVars>>
            /\ out' = Quiet
       /\ (opc[i] = "proclaimResp" /\ oresp[i] /\ opc'[i] = "idle") =>
            /\ UNCHANGED <<storeVars, fieldVars, campVars, eventVars>>
            /\ out' = Returns(i, "proclaim", "resolves", "")
    ]_vars

\* C12's case: the leader's proclaim has committed while the other instance
\* watches the leader's key
C12_Witness ==
  \E i \in Inst : \E j \in Inst \ {i} :
    /\ opc[i] = "proclaimResp" /\ oresp[i]
    /\ elected[i]
    /\ cpc[j] = "watching" /\ cwatch[j].key = oreq[i].key
    /\ Record(oreq[i].key).value = oreq[i].value
    /\ Record(oreq[i].key).create = leaderRevision[i]

\* ---- the watches of a campaign ----

\* C13 (as claimed): an instance holds at most one watch, and holds none
\* unless its campaign is waiting for the watched key's delete event.
C13_WatchReleased ==
  \A i \in Inst :
    /\ watchers[i] <= 1
    /\ cpc[i] \notin {"watchResp", "watching"} => watchers[i] = 0

OwnKey(i) == getKey(clease[i])

\* createRevisions the key k has or had
CreatedAt(k) ==
  {r.create : r \in {x \in store : x.key = k}}
    \cup {e.create : e \in {x \in deleted : x.key = k}}

\* C15 (as claimed): while a campaign waits, its bound is leaderRevision - 1;
\* the answer to its range query lists no key above the bound and not its
\* own key, oldest first; and the key it watches is not its own, was created
\* at or below the bound, and is no younger than any surviving key at or
\* below the bound.
C15_WatchesOldestPredecessor ==
  \A i \in Inst :
    /\ Waiting(i) => cbound[i] = leaderRevision[i] - 1
    /\ cpc[i] = "queryResp" =>
         /\ \A k \in 1 .. Len(cresp[i].kvs) :
              /\ cresp[i].kvs[k].create <= cbound[i]
              /\ cresp[i].kvs[k].key # OwnKey(i)
              /\ k > 1 => cresp[i].kvs[k - 1].create < cresp[i].kvs[k].create
         /\ \A r \in PrefixKeys :
              r.create <= cbound[i] =>
                \E k \in 1 .. Len(cresp[i].kvs) : cresp[i].kvs[k].key = r.key
    /\ Watching(i) =>
         /\ cwatch[i].key # OwnKey(i)
         /\ \E c \in CreatedAt(cwatch[i].key) :
              /\ c <= cbound[i]
              /\ \A r \in PrefixKeys : r.create <= cbound[i] => c <= r.create

\* ---- resign during a campaign ----

NotResigning(i) ==
  /\ leaderLeaseId[i] # 0
  /\ opc[i] \notin {"resignTxn", "resignResp"}

\* the latest campaign of i has finished its wait
WaitCompleted(i) == cpc[i] = "idle" /\ cbound[i] > 0

\* C17 (as claimed): a campaign that created its key, has seen every older
\* key go and has finished its wait, of an instance that has not called
\* resign, has emitted 'elected'.
C17_CompletedWaitIsElected ==
  \A i \in Inst : (WaitCompleted(i) /\ NotResigning(i)) => elected[i]

\* ---- one leader at a time ----

\* i has emitted 'elected', has not resigned or campaigned again since, and
\* its key is still in the store with the createRevision i has on record
HoldsLeadership(i) ==
  /\ elected[i]
  /\ HasKey(leaderKey[i])
  /\ Record(leaderKey[i]).create = leaderRevision[i]

\* C18 (amended): at most one instance has emitted 'elected' for its latest
\* campaign, without resigning or campaigning again since, while its
\* campaign key still exists with createRevision = leaderRevision.
C18_MutualExclusion ==
  \A i \in Inst : \A j \in Inst :
    (HoldsLeadership(i) /\ HoldsLeadership(j)) => i = j

\* i has emitted 'elected' and not resigned since, and the key it has on
\* record is in the store with the createRevision it has on record
ClaimedLeading(i) ==
  /\ emitted[i]
  /\ HasKey(leaderKey[i])
  /\ Record(leaderKey[i]).create = leaderRevision[i]

\* C18 (as claimed): at most one instance has emitted 'elected', without
\* resigning since, while its campaign key still exists with
\* createRevision = leaderRevision.
C18_AsClaimed ==
  \A i \in Inst : \A j \in Inst :
    (ClaimedLeading(i) /\ ClaimedLeading(j)) => i = j

\* C18's case: two instances have emitted 'elected' and neither has
\* resigned; the key of the first is gone and the second holds leadership
C18_Witness ==
  \E i \in Inst : \E j \in Inst \ {i} :
    /\ elected[i] /\ elected[j]
    /\ firstElected = i
    /\ ~HoldsLeadership(i)
    /\ HoldsLeadership(j)

\* ---- the revision on record ----

\* C19 (as claimed): once a campaign is on record, the key at leaderKey, as
\* long as it exists, has the createRevision the instance recorded as
\* leaderRevision, whether the campaign created the key or found it under
\* its lease.
C19_RecordedRevisionIsCreate ==
  \A i \in Inst :
    (leaderLeaseId[i] # 0 /\ HasKey(leaderKey[i]))
      => Record(leaderKey[i]).create = leaderRevision[i]

\* ---- resign racing the campaign ----

\* the resign transaction of i has deleted the key i has on record
OwnKeyResigned(i) ==
  \E e \in deleted :
    e.by = "resign" /\ e.key = leaderKey[i] /\ e.create = leaderRevision[i]

\* C20 (as claimed): no instance emits 'elected' once its own resign
\* transaction has deleted its campaign key.
C20_NoElectedAfterResignCommit ==
  \A i \in Inst : out = Emits(i, "elected") => ~OwnKeyResigned(i)
====
